---- MODULE Spec2Model ----
(***************************************************************************)
(* Two Flask services: service-a (the Provider, POST /token) and service-b *)
(* (the Consumer, POST /protected-action), which forwards to service-a     *)
(* with one bounded retry.  Every request is run by its own handler        *)
(* thread; the METRICS dictionaries are the only state the threads share.  *)
(***************************************************************************)
EXTENDS Integers, Sequences, FiniteSets, TLC

\* ------------------------------------------------------------------ bounds
NHandlers == 2          \* handler threads that may run at the same time
MaxRequests == 2        \* inbound client requests accepted in one behaviour

\* --------------------------------------------------------- program constants
TIMEOUT_MS == 1000      \* TIMEOUT_SECS = 1.0

Handlers == 1..NHandlers

\* ------------------------------------------------------------- JSON values
\* A JSON value as Python sees it after request.get_json(): tagged by type.
\* Strings are sequences of one-character strings, so that strip(), int() and
\* the f-string of the token are computed character by character.
Null == [t |-> "null"]
Str(s) == [t |-> "str", s |-> s]
Num(n) == [t |-> "num", n |-> n]
Bool(b) == [t |-> "bool", b |-> b]
List(n) == [t |-> "list", len |-> n]

c_divya == <<"d", "i", "v", "y", "a">>
c_pass123 == <<"p", "a", "s", "s", "1", "2", "3">>
c_tokenprefix == <<"t", "o", "k", "e", "n", "-">>
c_ping == <<"p", "i", "n", "g">>

\* Python truth value of a JSON value (the left operand of `x or default`).
Truthy(v) ==
    CASE v.t = "null" -> FALSE
      [] v.t = "str" -> v.s # <<>>
      [] v.t = "num" -> v.n # 0
      [] v.t = "bool" -> v.b
      [] v.t = "list" -> v.len > 0

\* Python `v or d`.
PyOr(v, d) == IF Truthy(v) THEN v ELSE d

IsSpace(c) == c \in {" ", "\t", "\n"}

RECURSIVE lstrip(_)
lstrip(s) == IF s # <<>> /\ IsSpace(Head(s)) THEN lstrip(Tail(s)) ELSE s

RECURSIVE rstrip(_)
rstrip(s) ==
    IF s # <<>> /\ IsSpace(s[Len(s)]) THEN rstrip(SubSeq(s, 1, Len(s) - 1)) ELSE s

\* str.strip(): leading and trailing whitespace removed.
strip(s) == rstrip(lstrip(s))

DigitChars == <<"0", "1", "2", "3", "4", "5", "6", "7", "8", "9">>
IsDigit(c) == \E i \in 1..Len(DigitChars) : DigitChars[i] = c
DigitVal(c) == (CHOOSE i \in 1..Len(DigitChars) : DigitChars[i] = c) - 1

RECURSIVE digits_value(_, _)
digits_value(s, acc) ==
    IF s = <<>> THEN acc ELSE digits_value(Tail(s), acc * 10 + DigitVal(Head(s)))

\* int(v) of Python: [ok |-> TRUE, n |-> value] or [ok |-> FALSE] when int()
\* raises (ValueError for a non-numeric string, TypeError for None / list).
py_int(v) ==
    CASE v.t = "num" -> [ok |-> TRUE, n |-> v.n]
      [] v.t = "bool" -> [ok |-> TRUE, n |-> IF v.b THEN 1 ELSE 0]
      [] v.t = "str" ->
            LET w == strip(v.s)
                neg == w # <<>> /\ Head(w) = "-"
                body == IF w # <<>> /\ Head(w) \in {"-", "+"} THEN Tail(w) ELSE w
            IN  IF body # <<>> /\ \A i \in 1..Len(body) : IsDigit(body[i])
                THEN [ok |-> TRUE,
                      n |-> IF neg THEN 0 - digits_value(body, 0)
                                   ELSE digits_value(body, 0)]
                ELSE [ok |-> FALSE]
      [] OTHER -> [ok |-> FALSE]

\* try: delay_ms = int(delay_ms) / except Exception: delay_ms = 0
coerce_delay(v) == LET r == py_int(v) IN IF r.ok THEN r.n ELSE 0

\* The request body after `request.get_json(silent=True) or {}`:
\*   kind "object"  a JSON object; a key that is absent reads as Null
\*   kind "empty"   no body, invalid JSON or a falsy JSON value: becomes {}
\*   kind "other"   a truthy JSON value that is no object (a list, a string):
\*                  it has no .get, so the first body.get raises AttributeError
BodyGet(body, key) ==
    IF body.kind = "object" /\ key \in DOMAIN body.f THEN body.f[key] ELSE Null

\* ------------------------------------------------------- service-a /token
\* maybe_delay_from_query_or_json: milliseconds slept before the check.
maybe_delay_from_query_or_json(delay_ms) ==
    IF delay_ms # 0 /\ delay_ms > 0 THEN delay_ms ELSE 0

\* Whether the view function raises before it returns (Flask answers 500).
token_raises(body) ==
    \/ body.kind = "other"
    \/ LET u == PyOr(BodyGet(body, "username"), Str(<<>>)) IN u.t # "str"

token_username(body) == strip(PyOr(BodyGet(body, "username"), Str(<<>>)).s)
token_password(body) == PyOr(BodyGet(body, "password"), Str(<<>>))
\* body.get("delay_ms") or request.args.get("delay_ms") or 0, then int().
token_delay(body, args) ==
    coerce_delay(PyOr(PyOr(BodyGet(body, "delay_ms"), args), Num(0)))

\* The response of POST /token to a request body and ?delay_ms= query value
\* (Null when the query has none), with the milliseconds it sleeps first.
token(body, args) ==
    IF token_raises(body)
    THEN [status |-> 500, json |-> [error |-> "Internal Server Error"], slept |-> 0]
    ELSE LET username == token_username(body)
             password == token_password(body)
             slept == maybe_delay_from_query_or_json(token_delay(body, args))
         IN  IF username = c_divya /\ password = Str(c_pass123)
             THEN [status |-> 200,
                   json |-> [token |-> c_tokenprefix \o username, user |-> username],
                   slept |-> slept]
             ELSE [status |-> 401,
                   json |-> [error |-> "invalid credentials"],
                   slept |-> slept]

\* ------------------------------------------------ service-b: pure parts
\* The X-Request-ID header of a request: absent, or present with a value.
NoHeader == [has |-> FALSE]
Header(v) == [has |-> TRUE, v |-> v]

\* A correlation id: a string a client chose, or the n-th uuid4() drawn
\* (uuid4 values are taken to differ from each other and from client strings).
ClientId(s) == [src |-> "client", s |-> s]
Uuid(n) == [src |-> "uuid4", n |-> n]

\* request.headers.get("X-Request-ID", "") of log_request.
log_request_id(hdr) == IF hdr.has THEN hdr.v ELSE ClientId("")

\* request.headers.get("X-Request-ID") or str(uuid.uuid4())
resolve_request_id(hdr, fresh) ==
    IF hdr.has /\ hdr.v # ClientId("") THEN hdr.v ELSE fresh

\* headers without the correlation id.
outbound_headers_blank(request_id) == ClientId("")

\* headers = {"X-Request-ID": request_id}
outbound_headers(request_id) == request_id

\* Whether protected_action raises while it reads the body (Flask answers 500).
protected_action_raises(body) ==
    \/ body.kind = "other"
    \/ LET u == PyOr(BodyGet(body, "username"), Str(<<>>)) IN u.t # "str"

\* enable_retry = body.get("retry") if body.get("retry") is not None else True
\* enable_retry = bool(enable_retry)
parse_retry(v) == IF v.t = "null" THEN TRUE ELSE Truthy(v)

\* One attempt more when retry is enabled.
attempts_for_three(enable_retry) == IF enable_retry THEN 3 ELSE 1

\* attempts = 2 if enable_retry else 1
attempts_for(enable_retry) == IF enable_retry THEN 2 ELSE 1

\* Exceptions of requests, with the classes each is an instance of and str(e).
NoExc == [cls |-> {}, text |-> "None"]
ReadTimeout ==
    [cls |-> {"Timeout", "RequestException"}, text |-> "Read timed out."]
ConnectTimeout ==
    [cls |-> {"Timeout", "ConnectionError", "RequestException"},
     text |-> "Connection to 127.0.0.1 timed out."]
ConnectionRefused ==
    [cls |-> {"ConnectionError", "RequestException"}, text |-> "Connection refused"]
HTTPError(status) ==
    [cls |-> {"RequestException"},
     text |-> IF status >= 500 THEN "Server Error" ELSE "Client Error"]

\* What r.json() raises for a body that is no JSON document:
\* requests.exceptions.JSONDecodeError, an InvalidJSONError and so a
\* RequestException.
JSONDecodeError ==
    [cls |-> {"InvalidJSONError", "RequestException"},
     text |-> "Expecting value: line 1 column 1 (char 0)"]

py_str(e) == e.text

\* The body of a response that is no JSON document.
MalformedBody == [malformed |-> TRUE]

\* The except clause that catches e: the first whose class e is an instance of.
except_clause(e) ==
    IF "Timeout" \in e.cls THEN "timeout"
    ELSE IF "ConnectionError" \in e.cls THEN "connection_error"
    ELSE "request_exception"

\* on_response without the 401 test: raise_for_status() sees the 401.
on_response_no_401(r) ==
    IF r.status >= 400 /\ r.status < 600 THEN "raise"
    ELSE IF r.json = MalformedBody THEN "raise"
    ELSE "ok"

\* on_response returning the body as it came, without r.json().
on_response_unparsed(r) ==
    IF r.status = 401 THEN "auth_failed"
    ELSE IF r.status >= 400 /\ r.status < 600 THEN "raise"
    ELSE "ok"

\* What the try block does with an HTTP response r of the Provider:
\* 401 returns auth_failed, raise_for_status() raises on any other 4xx / 5xx,
\* r.json() raises on a body that is no JSON document, otherwise ok is
\* returned with the body.
on_response(r) ==
    IF r.status = 401 THEN "auth_failed"
    ELSE IF r.status >= 400 /\ r.status < 600 THEN "raise"
    ELSE IF r.json = MalformedBody THEN "raise"
    ELSE "ok"

\* The exception the try block raises for response r: the HTTPError of
\* raise_for_status(), or the error of r.json().
response_error(r) ==
    IF r.status >= 400 /\ r.status < 600 THEN HTTPError(r.status) ELSE JSONDecodeError

\* No clause breaks.
breaks_never(clause) == FALSE

\* break at the end of the RequestException clause only.
breaks_loop(clause) == clause = "request_exception"

\* The test without the attempt number.
takes_backoff_always(enable_retry, attempt) == enable_retry

\* The test with the attempt number off by one.
takes_backoff_late(enable_retry, attempt) == enable_retry /\ attempt = 1

\* if enable_retry and attempt == 0:
takes_backoff(enable_retry, attempt) == enable_retry /\ attempt = 0

\* last_exc = last_exc or e: the first error is kept.
keep_first_exc(last_exc, e) == IF last_exc.cls = {} THEN e ELSE last_exc

\* last_exc = e
keep_last_exc(last_exc, e) == e

\* str(last_exc) if last_exc else "unknown error"
failure_details(last_exc) ==
    IF last_exc = NoExc THEN "unknown error" ELSE py_str(last_exc)

\* render without the auth_failed branch.
render_no_401(status, provider_json, err, action, request_id) ==
    IF status # "ok"
    THEN [status |-> 503,
          json |-> [error |-> "provider unavailable", details |-> err]]
    ELSE [status |-> 200,
          json |-> [consumer |-> "ok", action |-> action,
                    user |-> provider_json.user, token |-> provider_json.token,
                    request_id |-> request_id]]

\* The response protected_action builds from call_provider_token's result.
render(status, provider_json, err, action, request_id) ==
    IF status = "auth_failed"
    THEN [status |-> 401, json |-> [error |-> "invalid credentials"]]
    ELSE IF status # "ok"
    THEN [status |-> 503,
          json |-> [error |-> "provider unavailable", details |-> err]]
    ELSE [status |-> 200,
          json |-> [consumer |-> "ok", action |-> action,
                    user |-> provider_json.user, token |-> provider_json.token,
                    request_id |-> request_id]]

\* Flask's answer when a view function raises (debug=False).
InternalServerError == [status |-> 500, json |-> [error |-> "Internal Server Error"]]

\* --------------------------------------------------------------- requests
Obj(u, p, a, d, r) ==
    [kind |-> "object",
     f |-> [username |-> u, password |-> p, action |-> a, delay_ms |-> d, retry |-> r]]
EmptyBody == [kind |-> "empty"]
OtherBody == [kind |-> "other"]

c_padded == <<" ">> \o c_divya \o <<" ">>
c_wrong == <<"w", "r", "o", "n", "g">>
c_deploy == <<"d", "e", "p", "l", "o", "y">>
c_abc == <<"a", "b", "c">>

Request(svc, endpoint, hdr, body, args) ==
    [svc |-> svc, endpoint |-> endpoint, hdr |-> hdr, body |-> body, args |-> args]

\* The client requests the handlers are given.  Credentials, the retry flag
\* and the X-Request-ID header vary together; the delay, the action and the
\* shape of the body vary on their own.
Credentials ==
    { <<Str(c_divya), Str(c_pass123)>>, <<Str(c_padded), Str(c_pass123)>>,
      <<Str(c_divya), Str(c_wrong)>>, <<Null, Null>>, <<Num(123), Str(c_pass123)>> }
ProtectedActionBodies ==
    { Obj(c[1], c[2], Null, Null, r) : c \in Credentials, r \in {Null, Bool(FALSE)} }
    \cup { Obj(Str(c_divya), Str(c_pass123), Str(c_deploy), d, Null) :
             d \in {Num(2000), Str(c_abc)} }
    \cup { EmptyBody, OtherBody }

TokenBodies ==
    { Obj(c[1], c[2], Null, Null, Null) : c \in Credentials }
    \cup { Obj(Str(c_divya), Str(c_pass123), Null, Num(2000), Null), OtherBody }

Requests ==
    { Request("b", "/protected-action", h, b, Null) :
        h \in {NoHeader, Header(ClientId("abc123"))}, b \in ProtectedActionBodies }
    \cup { Request("b", "/protected-action", Header(ClientId("")),
                   Obj(Str(c_divya), Str(c_pass123), Null, Null, Null), Null) }
    \cup { Request("a", "/token", Header(ClientId("abc123")), b, Null) :
             b \in TokenBodies }
    \cup { Request(svc, e, NoHeader, EmptyBody, Null) :
             svc \in {"a", "b"}, e \in {"/health", "/metrics"} }

\* The requests given to handlers that run at the same time: one of each
\* endpoint of each service.
ConcurrentRequests ==
    { Request("b", "/protected-action", NoHeader,
              Obj(Str(c_divya), Str(c_pass123), Null, Null, Null), Null),
      Request("a", "/token", NoHeader,
              Obj(Str(c_divya), Str(c_pass123), Null, Null, Null), Null) }
    \cup { Request(svc, e, NoHeader, EmptyBody, Null) :
             svc \in {"a", "b"}, e \in {"/health", "/metrics"} }

\* ------------------------------------------------------------------ state
VARIABLES
    METRICS_a,  \* service-a METRICS
    METRICS_b,  \* service-b METRICS
    pc,         \* pc[h]: the line handler h is at ("idle": between requests)
    req,        \* req[h]: the inbound request h is handling
    loc,        \* loc[h]: the local variables of h's view function and callees
    sent,       \* sent[h]: the requests.post calls h has made, in order
    logs,       \* logs[h]: the log_json records written for h's request
    response,   \* response[h]: the response returned to the client
    base,       \* base[h]: both METRICS as they were when h took its request
    handled,    \* handled[s]: runs of log_request by service s so far
    accepted,   \* client requests taken so far
    arg,        \* an input of token(), for the specification of the function
    result      \* what token() returned for arg

hvars == <<METRICS_a, METRICS_b, pc, req, loc, sent, logs, response, base,
           handled, accepted>>
fvars == <<arg, result>>
vars == <<METRICS_a, METRICS_b, pc, req, loc, sent, logs, response, base,
          handled, accepted, arg, result>>

NoRequest == [svc |-> "none"]
NoReply == [kind |-> "none"]
NoResponse == [status |-> 0]

IdleLoc ==
    [username |-> <<>>, password |-> Null, action |-> Null, delay_ms |-> 0,
     enable_retry |-> FALSE, request_id |-> ClientId(""), attempts |-> 0,
     attempt |-> 0, exc |-> NoExc, last_exc |-> NoExc, status |-> "",
     provider_json |-> [error |-> ""], err |-> "", reply |-> NoReply,
     areq |-> NoRequest, aresp |-> NoResponse, sleeps |-> 0,
     tmp |-> 0, loaded |-> FALSE, cancelled |-> FALSE]

NoBase ==
    [a |-> [requests_total |-> 0, token_requests |-> 0],
     b |-> [requests_total |-> 0, protected_action_requests |-> 0,
            provider_failures |-> 0, provider_timeouts |-> 0,
            provider_connection_errors |-> 0, provider_other_errors |-> 0,
            retries_used |-> 0]]

\* The state of the two processes after start-up, no request taken yet.
HInit ==
    /\ METRICS_a = [requests_total |-> 0, token_requests |-> 0]
    /\ METRICS_b = [requests_total |-> 0, protected_action_requests |-> 0,
                    provider_failures |-> 0, provider_timeouts |-> 0,
                    provider_connection_errors |-> 0, provider_other_errors |-> 0,
                    retries_used |-> 0]
    /\ pc = [h \in Handlers |-> "idle"]
    /\ req = [h \in Handlers |-> NoRequest]
    /\ loc = [h \in Handlers |-> IdleLoc]
    /\ sent = [h \in Handlers |-> <<>>]
    /\ logs = [h \in Handlers |-> <<>>]
    /\ response = [h \in Handlers |-> NoResponse]
    /\ base = [h \in Handlers |-> NoBase]
    /\ handled = [a |-> 0, b |-> 0]
    /\ accepted = 0

Init ==
    /\ HInit
    /\ arg = [body |-> EmptyBody, args |-> Null]
    /\ result = NoResponse

\* ------------------------------------------------- the `+= 1` on METRICS
\* METRICS[name] += 1 is a read of the dictionary entry, an add and a write
\* back, with no lock: another handler thread may run between the read and
\* the write.  pc[h] names the line of the statement; loc[h].loaded tells
\* whether the read has been done.
SitesA == {"A62", "A29"}
SitesB == {"L133", "L85", "L86", "L98", "L99", "L111", "L112", "L125", "L38"}

\* The RequestException clause counting the failure twice and its class not
\* at all.
CounterAt_other_unclassed(site) ==
    CASE site = "L133" -> "protected_action_requests"
      [] site \in {"L85", "L98", "L111", "L112"} -> "provider_failures"
      [] site = "L86" -> "provider_timeouts"
      [] site = "L99" -> "provider_connection_errors"
      [] site = "L125" -> "retries_used"
      [] site \in {"L38", "A29"} -> "requests_total"
      [] site = "A62" -> "token_requests"

\* log_request of service-b counting the request as a protected action.
CounterAt_miscounted(site) ==
    CASE site \in {"L133", "L38"} -> "protected_action_requests"
      [] site \in {"L85", "L98", "L111"} -> "provider_failures"
      [] site = "L86" -> "provider_timeouts"
      [] site = "L99" -> "provider_connection_errors"
      [] site = "L112" -> "provider_other_errors"
      [] site = "L125" -> "retries_used"
      [] site = "A29" -> "requests_total"
      [] site = "A62" -> "token_requests"

\* The counter incremented at each `+= 1` line.
CounterAt(site) ==
    CASE site = "L133" -> "protected_action_requests"
      [] site \in {"L85", "L98", "L111"} -> "provider_failures"
      [] site = "L86" -> "provider_timeouts"
      [] site = "L99" -> "provider_connection_errors"
      [] site = "L112" -> "provider_other_errors"
      [] site = "L125" -> "retries_used"
      [] site \in {"L38", "A29"} -> "requests_total"
      [] site = "A62" -> "token_requests"

\* The next line after a `+= 1` that is followed by straight-line code.
LineAfter(site) ==
    CASE site = "L133" -> "L135"
      [] site = "L85" -> "L86"
      [] site = "L98" -> "L99"
      [] site = "L111" -> "L112"
      [] site = "A62" -> "A64"

\* The read half of METRICS[name] += 1.
Load(h) ==
    /\ pc[h] \in SitesA \cup SitesB
    /\ ~loc[h].loaded
    /\ loc' = [loc EXCEPT ![h].loaded = TRUE,
                          ![h].tmp = IF pc[h] \in SitesA
                                     THEN METRICS_a[CounterAt(pc[h])]
                                     ELSE METRICS_b[CounterAt(pc[h])]]
    /\ UNCHANGED <<METRICS_a, METRICS_b, pc, req, sent, logs, response, base,
                   handled, accepted, arg, result>>

\* The write half of METRICS[name] += 1 at handler h's line.
WriteBack(h) ==
    IF pc[h] \in SitesA
    THEN /\ METRICS_a' = [METRICS_a EXCEPT ![CounterAt(pc[h])] = loc[h].tmp + 1]
         /\ UNCHANGED METRICS_b
    ELSE /\ METRICS_b' = [METRICS_b EXCEPT ![CounterAt(pc[h])] = loc[h].tmp + 1]
         /\ UNCHANGED METRICS_a

\* The write half, at a line followed by straight-line code.
Store(h) ==
    /\ pc[h] \in {"L133", "L85", "L98", "L111", "A62"}
    /\ loc[h].loaded
    /\ WriteBack(h)
    /\ loc' = [loc EXCEPT ![h].loaded = FALSE, ![h].tmp = 0]
    /\ pc' = [pc EXCEPT ![h] = LineAfter(pc[h])]
    /\ UNCHANGED <<req, sent, logs, response, base, handled, accepted, arg, result>>

\* ------------------------------------------------------ request handling
\* A handler thread takes a client request: Flask dispatches it and runs
\* start_timer.  /health and /metrics go to their view function, /token and
\* /protected-action to the first statement of theirs.  The threads are
\* interchangeable, so the request goes to the first one that is free.
Receive(h, offered) ==
    /\ pc[h] = "idle"
    /\ \A g \in Handlers : g < h => pc[g] # "idle"
    /\ accepted < MaxRequests
    /\ \E r \in offered :
         /\ req' = [req EXCEPT ![h] = r]
         /\ loc' = [loc EXCEPT ![h].areq =
                        IF r.svc = "a"
                        THEN [hdr |-> r.hdr, body |-> r.body, args |-> r.args]
                        ELSE NoRequest]
         /\ pc' = [pc EXCEPT ![h] =
                        CASE r.endpoint \in {"/health", "/metrics"} -> "view"
                          [] r.endpoint = "/token" -> "A62"
                          [] r.endpoint = "/protected-action" -> "L133"]
    /\ base' = [base EXCEPT ![h] = [a |-> METRICS_a, b |-> METRICS_b]]
    /\ accepted' = accepted + 1
    /\ UNCHANGED <<METRICS_a, METRICS_b, sent, logs, response, handled, arg, result>>

\* A health check that reports the service as not ready.
health_unavailable == [status |-> 503, json |-> [status |-> "unavailable"]]

\* health() of either service: return jsonify(status="ok"), 200
health == [status |-> 200, json |-> [status |-> "ok"]]

\* health() and metrics() of either service.
View(h) ==
    /\ pc[h] = "view"
    /\ LET r == IF req[h].endpoint = "/health"
                THEN health
                ELSE [status |-> 200,
                      json |-> IF req[h].svc = "a" THEN METRICS_a ELSE METRICS_b]
       IN  /\ response' = [response EXCEPT ![h] = r]
           /\ loc' = [loc EXCEPT ![h].aresp =
                          IF req[h].svc = "a"
                          THEN [status |-> r.status, json |-> r.json, slept |-> 0]
                          ELSE NoResponse]
    /\ pc' = [pc EXCEPT ![h] = IF req[h].svc = "a" THEN "A29" ELSE "L38"]
    /\ UNCHANGED <<METRICS_a, METRICS_b, req, sent, logs, base, handled, accepted,
                   arg, result>>

\* service-a token(), after its counter: the body is read, the delay slept
\* and the credentials checked.
TokenView(h) ==
    /\ pc[h] = "A64"
    /\ loc' = [loc EXCEPT ![h].aresp = token(loc[h].areq.body, loc[h].areq.args)]
    /\ pc' = [pc EXCEPT ![h] = "A29"]
    /\ UNCHANGED <<METRICS_a, METRICS_b, req, sent, logs, response, base, handled,
                   accepted, arg, result>>

\* protected_action(), after its counter: the body and the header are read;
\* then call_provider_token is entered and sets up its loop.
Parse(h) ==
    /\ pc[h] = "L135"
    /\ LET body == req[h].body IN
       IF protected_action_raises(body)
       THEN /\ response' = [response EXCEPT ![h] = InternalServerError]
            /\ pc' = [pc EXCEPT ![h] = "L38"]
            /\ loc' = loc
       ELSE /\ loc' = [loc EXCEPT
                 ![h].username = strip(PyOr(BodyGet(body, "username"), Str(<<>>)).s),
                 ![h].password = PyOr(BodyGet(body, "password"), Str(<<>>)),
                 ![h].action = PyOr(BodyGet(body, "action"), Str(c_ping)),
                 ![h].delay_ms = coerce_delay(PyOr(BodyGet(body, "delay_ms"), Num(0))),
                 ![h].enable_retry = parse_retry(BodyGet(body, "retry")),
                 ![h].request_id = resolve_request_id(req[h].hdr, Uuid(accepted)),
                 ![h].attempts = attempts_for(parse_retry(BodyGet(body, "retry"))),
                 ![h].attempt = 0,
                 ![h].last_exc = NoExc]
            /\ pc' = [pc EXCEPT ![h] = IF loc'[h].attempts > 0 THEN "L76" ELSE "L129"]
            /\ response' = response
    /\ UNCHANGED <<METRICS_a, METRICS_b, req, sent, logs, base, handled, accepted,
                   arg, result>>

\* What the network can do to one requests.post besides delivering it.
TransportFailures ==
    { [kind |-> "exception", e |-> ReadTimeout],
      [kind |-> "exception", e |-> ConnectTimeout],
      [kind |-> "exception", e |-> ConnectionRefused],
      [kind |-> "response", status |-> 500, json |-> [error |-> "Internal Server Error"]],
      [kind |-> "response", status |-> 200, json |-> MalformedBody] }

\* requests.post(url, json=payload, headers=headers, timeout=TIMEOUT_SECS):
\* the call either reaches service-a, whose token() then runs for it, or it
\* fails on the way (refused, connect or read timeout, an error status or a
\* body that is no JSON answered in the Provider's place).
Send(h) ==
    /\ pc[h] = "L76"
    /\ LET l == loc[h]
           payload == [kind |-> "object",
                       f |-> [username |-> Str(l.username), password |-> l.password,
                              delay_ms |-> Num(l.delay_ms)]]
           \* the call and, once known, how it ended (reply, outcome)
           call == [headers |-> outbound_headers(l.request_id), json |-> payload,
                    attempt |-> l.attempt + 1, reply |-> NoReply,
                    outcome |-> "pending"]
       IN  /\ sent' = [sent EXCEPT ![h] = Append(@, call)]
           /\ \/ /\ loc' = [loc EXCEPT ![h].areq =
                               [hdr |-> Header(call.headers), body |-> payload,
                                args |-> Null]]
                 /\ pc' = [pc EXCEPT ![h] = "A62"]
              \/ \E f \in TransportFailures :
                   /\ loc' = [loc EXCEPT ![h].reply = f]
                   /\ pc' = [pc EXCEPT ![h] = "L78"]
    /\ UNCHANGED <<METRICS_a, METRICS_b, req, logs, response, base, handled,
                   accepted, arg, result>>

\* The end of call_provider_token: what it returns to protected_action.
ReturnFailed(l) ==
    [pc |-> "L162",
     loc |-> [l EXCEPT !.status = "provider_failed",
                       !.err = failure_details(l.last_exc)]]

\* The for loop goes to its next attempt, or is exhausted.
NextIteration(l) ==
    IF l.attempt + 1 < l.attempts
    THEN [pc |-> "L76", loc |-> [l EXCEPT !.attempt = @ + 1]]
    ELSE ReturnFailed(l)

\* The rest of the try block once requests.post has returned or raised.
Outcome(h) ==
    /\ pc[h] = "L78"
    /\ LET l == loc[h]
           r == l.reply
           what == IF r.kind = "response" THEN on_response(r) ELSE "raise"
           e == IF r.kind = "response" THEN response_error(r) ELSE r.e
           clause == except_clause(e)
           n == Len(sent[h])
       IN  CASE what = "auth_failed" ->
                  /\ loc' = [loc EXCEPT ![h].status = "auth_failed"]
                  /\ pc' = [pc EXCEPT ![h] = "L162"]
                  /\ sent' = [sent EXCEPT ![h][n].outcome = "auth_failed",
                                          ![h][n].reply = r]
             [] what = "ok" ->
                  /\ loc' = [loc EXCEPT ![h].status = "ok",
                                        ![h].provider_json = r.json]
                  /\ pc' = [pc EXCEPT ![h] = "L162"]
                  /\ sent' = [sent EXCEPT ![h][n].outcome = "ok", ![h][n].reply = r]
             [] what = "raise" ->
                  /\ loc' = [loc EXCEPT ![h].exc = e]
                  /\ pc' = [pc EXCEPT ![h] =
                                CASE clause = "timeout" -> "L85"
                                  [] clause = "connection_error" -> "L98"
                                  [] clause = "request_exception" -> "L111"]
                  /\ sent' = [sent EXCEPT ![h][n].outcome = clause, ![h][n].reply = r]
    /\ UNCHANGED <<METRICS_a, METRICS_b, req, logs, response, base, handled,
                   accepted, arg, result>>

\* The second `+= 1` of an except clause is written back, last_exc is set and
\* the failure is logged; then the clause breaks, or control reaches
\* `if enable_retry and attempt == 0`.
RecordFailure(h) ==
    /\ pc[h] \in {"L86", "L99", "L112"}
    /\ loc[h].loaded
    /\ WriteBack(h)
    /\ LET clause == except_clause(loc[h].exc)
           l == [loc[h] EXCEPT !.loaded = FALSE, !.tmp = 0,
                               !.last_exc = keep_last_exc(@, loc[h].exc)]
           next == IF breaks_loop(clause) THEN ReturnFailed(l)
                   ELSE IF takes_backoff(l.enable_retry, l.attempt)
                        THEN [pc |-> "L125", loc |-> l]
                        ELSE NextIteration(l)
       IN  /\ logs' = [logs EXCEPT ![h] =
                          Append(@, [service |-> "service-b", level |-> "ERROR",
                                     event |-> "provider_call_failed",
                                     error |-> clause, attempt |-> l.attempt + 1,
                                     request_id |-> l.request_id])]
           /\ loc' = [loc EXCEPT ![h] = next.loc]
           /\ pc' = [pc EXCEPT ![h] = next.pc]
    /\ UNCHANGED <<req, sent, response, base, handled, accepted, arg, result>>

\* retries_used is written back and time.sleep(0.05) taken; the loop goes on.
Backoff(h) ==
    /\ pc[h] = "L125"
    /\ loc[h].loaded
    /\ WriteBack(h)
    /\ LET next == NextIteration([loc[h] EXCEPT !.loaded = FALSE, !.tmp = 0,
                                                !.sleeps = @ + 1])
       IN  /\ loc' = [loc EXCEPT ![h] = next.loc]
           /\ pc' = [pc EXCEPT ![h] = next.pc]
    /\ UNCHANGED <<req, sent, logs, response, base, handled, accepted, arg, result>>

\* protected_action turns the result of call_provider_token into a response.
Respond(h) ==
    /\ pc[h] = "L162"
    /\ LET l == loc[h] IN
       response' = [response EXCEPT ![h] =
                       render(l.status, l.provider_json, l.err, l.action, l.request_id)]
    /\ pc' = [pc EXCEPT ![h] = "L38"]
    /\ UNCHANGED <<METRICS_a, METRICS_b, req, loc, sent, logs, base, handled,
                   accepted, arg, result>>

\* What requests.post gives service-b once service-a has answered: the
\* response, or a read timeout when service-a slept TIMEOUT_SECS or longer.
reply_of(aresp) ==
    IF aresp.slept >= TIMEOUT_MS
    THEN [kind |-> "exception", e |-> ReadTimeout]
    ELSE [kind |-> "response", status |-> aresp.status, json |-> aresp.json]

\* log_request (after_request) of either service: requests_total is written
\* back and the completion record logged.  For a call made by service-b the
\* answer of service-a then goes back to the waiting requests.post.  (When
\* service-a sleeps past the timeout, service-b in fact goes on while
\* service-a is still asleep; the two touch different METRICS, so running
\* service-a's part first changes no counter either of them reaches.)
LogRequest(h) ==
    /\ pc[h] \in {"L38", "A29"}
    /\ loc[h].loaded
    /\ WriteBack(h)
    /\ IF pc[h] = "L38"
       THEN /\ handled' = [handled EXCEPT !.b = @ + 1]
            /\ logs' = [logs EXCEPT ![h] =
                           Append(@, [service |-> "service-b", level |-> "INFO",
                                      endpoint |-> req[h].endpoint,
                                      status |-> response[h].status,
                                      request_id |-> log_request_id(req[h].hdr)])]
            /\ loc' = [loc EXCEPT ![h].loaded = FALSE, ![h].tmp = 0]
            /\ pc' = [pc EXCEPT ![h] = "done"]
            /\ response' = response
       ELSE /\ handled' = [handled EXCEPT !.a = @ + 1]
            /\ logs' = [logs EXCEPT ![h] =
                           Append(@, [service |-> "service-a", level |-> "INFO",
                                      endpoint |-> IF req[h].svc = "a"
                                                   THEN req[h].endpoint ELSE "/token",
                                      status |-> loc[h].aresp.status,
                                      request_id |-> log_request_id(loc[h].areq.hdr)])]
            /\ IF req[h].svc = "a"
               THEN /\ loc' = [loc EXCEPT ![h].loaded = FALSE, ![h].tmp = 0]
                    /\ pc' = [pc EXCEPT ![h] = "done"]
                    /\ response' = [response EXCEPT ![h] =
                                       [status |-> loc[h].aresp.status,
                                        json |-> loc[h].aresp.json]]
               ELSE /\ loc' = [loc EXCEPT ![h].loaded = FALSE, ![h].tmp = 0,
                                          ![h].reply = reply_of(loc[h].aresp)]
                    /\ pc' = [pc EXCEPT ![h] = "L78"]
                    /\ response' = response
    /\ UNCHANGED <<req, sent, base, accepted, arg, result>>

\* The response has gone to the client; the thread is free for another request.
Finish(h) ==
    /\ pc[h] = "done"
    /\ pc' = [pc EXCEPT ![h] = "idle"]
    /\ req' = [req EXCEPT ![h] = NoRequest]
    /\ loc' = [loc EXCEPT ![h] = IdleLoc]
    /\ sent' = [sent EXCEPT ![h] = <<>>]
    /\ logs' = [logs EXCEPT ![h] = <<>>]
    /\ response' = [response EXCEPT ![h] = NoResponse]
    /\ base' = [base EXCEPT ![h] = NoBase]
    /\ UNCHANGED <<METRICS_a, METRICS_b, handled, accepted, arg, result>>

Step(h) ==
    \/ View(h) \/ Load(h) \/ Store(h) \/ TokenView(h) \/ Parse(h) \/ Send(h)
    \/ Outcome(h) \/ RecordFailure(h) \/ Backoff(h) \/ Respond(h)
    \/ LogRequest(h) \/ Finish(h)

\* Requests are handled by threads that run at the same time.
Next == \E h \in Handlers : Receive(h, ConcurrentRequests) \/ Step(h)

Spec == Init /\ [][Next]_vars

\* Requests are handled one at a time: one is taken only when no other is
\* in progress.
AllIdle == \A g \in Handlers : pc[g] = "idle"
SeqNext == \E h \in Handlers : (AllIdle /\ Receive(h, Requests)) \/ Step(h)

SeqSpec == Init /\ [][SeqNext]_vars

\* call_provider_token is running in handler h.
InForwarder(h) ==
    /\ req[h].svc = "b" /\ req[h].endpoint = "/protected-action"
    /\ loc[h].attempts > 0
    /\ pc[h] \notin {"L162", "L38", "done", "idle"}

\* The client of the request handler h is serving gives the request up (it
\* closes its connection) while call_provider_token is running.  Neither
\* protected_action nor call_provider_token looks at the client's connection,
\* so nothing of the handler changes; the model only notes that it happened.
Cancel(h) ==
    /\ InForwarder(h)
    /\ ~loc[h].cancelled
    /\ loc' = [loc EXCEPT ![h].cancelled = TRUE]
    /\ UNCHANGED <<METRICS_a, METRICS_b, pc, req, sent, logs, response, base,
                   handled, accepted, arg, result>>

\* The requests of the runs in which progress is looked at: a protected
\* action with retry left out and with retry disabled, one with a wrong
\* password, and a health check.
ProgressRequests ==
    { Request("b", "/protected-action", NoHeader,
              Obj(Str(c_divya), Str(c_pass123), Null, Null, r), Null) :
        r \in {Null, Bool(FALSE)} }
    \cup { Request("b", "/protected-action", NoHeader,
                   Obj(Str(c_divya), Str(c_wrong), Null, Null, Null), Null),
           Request("b", "/health", NoHeader, EmptyBody, Null) }

\* One request at a time, with every handler thread that has a step to take
\* scheduled in the end: a thread is not starved, requests.post returns
\* within its timeout and time.sleep returns.
FairNext == \E h \in Handlers : (AllIdle /\ Receive(h, ProgressRequests)) \/ Step(h)

FairSpec == Init /\ [][FairNext]_vars /\ \A h \in Handlers : WF_vars(Step(h))

\* One request at a time, which its client may give up while it is forwarded.
CancelNext ==
    \E h \in Handlers :
        (AllIdle /\ Receive(h, ProgressRequests)) \/ Step(h) \/ Cancel(h)

CancelSpec == Init /\ [][CancelNext]_vars

\* ------------------------------------------- token() as a pure function
TokenUsernames ==
    { Null, Str(<<>>), Str(c_divya), Str(<<" ">> \o c_divya), Str(c_divya \o <<" ">>),
      Str(c_padded), Str(<<"D", "i", "v", "y", "a">>), Str(c_wrong), Num(123),
      Bool(TRUE) }
TokenPasswords ==
    { Null, Str(<<>>), Str(c_pass123), Str(<<" ">> \o c_pass123), Str(c_wrong),
      Num(123) }
TokenDelays == { Null, Num(0), Num(2000), Num(0 - 5), Str(c_abc), Str(<<"5", "0">>) }
TokenArgs ==
    { [body |-> b, args |-> a] :
        b \in { Obj(u, p, Null, d, Null) :
                  u \in TokenUsernames, p \in TokenPasswords, d \in TokenDelays }
              \cup { EmptyBody, OtherBody },
        a \in { Null, Str(<<"1", "5", "0", "0">>), Str(c_abc) } }

TokInit ==
    /\ HInit
    /\ arg \in TokenArgs
    /\ result = NoResponse

\* POST /token is answered for the request body and query in arg.
ApplyToken ==
    /\ result = NoResponse
    /\ result' = token(arg.body, arg.args)
    /\ UNCHANGED <<METRICS_a, METRICS_b, pc, req, loc, sent, logs, response, base,
                   handled, accepted, arg>>

TokNext == ApplyToken

TokSpec == TokInit /\ [][TokNext]_vars

\* ------------------------------------------------------------ properties
FailureCounters ==
    {"provider_failures", "provider_timeouts", "provider_connection_errors",
     "provider_other_errors"}

\* Growth of a service-b counter since handler h took its request.
Delta(h, name) == METRICS_b[name] - base[h].b[name]

IsProtectedAction(h) == req[h].svc = "b" /\ req[h].endpoint = "/protected-action"

\* call_provider_token has returned to protected_action in handler h.
Returned(h) == IsProtectedAction(h) /\ pc[h] \in {"L162", "L38", "done"} /\ loc[h].status # ""

\* How requests.post ended, as the network produced it.
IsTimeoutReply(r) == r.kind = "exception" /\ "Timeout" \in r.e.cls
IsConnectionReply(r) ==
    r.kind = "exception" /\ "ConnectionError" \in r.e.cls /\ "Timeout" \notin r.e.cls
IsTransientReply(r) == IsTimeoutReply(r) \/ IsConnectionReply(r)
IsSuccessReply(r) == r.kind = "response" /\ r.status = 200 /\ r.json # MalformedBody
IsOtherReply(r) ==
    /\ r.kind = "response"
    /\ \/ r.status # 401 /\ r.status >= 400 /\ r.status < 600
       \/ r.status = 200 /\ r.json = MalformedBody

\* C1: once every handler has completed its request, requests_total of each
\* service equals the number of requests that service handled (each ran
\* log_request once): no increment is lost, whatever the interleaving.
C1_NoLostUpdate ==
    (\A h \in Handlers : pc[h] \in {"idle", "done"}) =>
        /\ METRICS_b.requests_total = handled.b
        /\ METRICS_a.requests_total = handled.a

\* The attempts before the n-th of handler h whose reply satisfies a test.
TimeoutsBefore(h, n) == Cardinality({i \in 1..(n - 1) : IsTimeoutReply(sent[h][i].reply)})
ConnectionErrorsBefore(h, n) ==
    Cardinality({i \in 1..(n - 1) : IsConnectionReply(sent[h][i].reply)})

\* C2: an attempt answered 401 makes call_provider_token return auth_failed
\* at once: it is the last outbound call, no backoff follows it, and the four
\* failure counters and retries_used have grown only by what the attempts
\* before it added (nothing, when it is the first).
C2_AuthRejectedAtOnce ==
    \A h \in Handlers :
        LET l == loc[h]
            n == Len(sent[h])
        IN  (l.reply.kind = "response" /\ l.reply.status = 401 /\ pc[h] # "L78") =>
                /\ Returned(h)
                /\ l.status = "auth_failed"
                /\ n = l.attempt + 1
                /\ sent[h][n].reply = l.reply
                /\ l.sleeps = n - 1
                /\ Delta(h, "retries_used") = n - 1
                /\ Delta(h, "provider_failures") = n - 1
                /\ Delta(h, "provider_timeouts") = TimeoutsBefore(h, n)
                /\ Delta(h, "provider_connection_errors") = ConnectionErrorsBefore(h, n)
                /\ Delta(h, "provider_other_errors") = 0

\* C2 witness: retry enabled, the first attempt answered 401, request completed
\* with a single outbound call.
C2_Witness ==
    \E h \in Handlers :
        /\ pc[h] = "done" /\ loc[h].enable_retry /\ loc[h].status = "auth_failed"
        /\ Len(sent[h]) = 1 /\ loc[h].attempts = 2

\* C3 as stated: a request that ends in auth rejection made exactly one
\* outbound call and left the four failure counters as they were before it.
C3_OneCallPerRejection ==
    \A h \in Handlers :
        (pc[h] = "done" /\ IsProtectedAction(h) /\ loc[h].status = "auth_failed"
            /\ response[h].status = 401) =>
            /\ Len(sent[h]) = 1
            /\ \A c \in FailureCounters : Delta(h, c) = 0

\* C3 amended: a request whose forwarder returned auth_failed is answered 401;
\* the 401 came on the last outbound call, every call before it failed
\* transiently, and the failure counters grew by those earlier failures only
\* (by nothing when the 401 came on the first attempt).
C3_RejectionEndsCalls ==
    \A h \in Handlers :
        LET n == Len(sent[h]) IN
        (pc[h] = "done" /\ IsProtectedAction(h) /\ loc[h].status = "auth_failed") =>
            /\ response[h].status = 401
            /\ n \in 1..2
            /\ sent[h][n].reply.kind = "response" /\ sent[h][n].reply.status = 401
            /\ \A i \in 1..(n - 1) : IsTransientReply(sent[h][i].reply)
            /\ n = 2 => loc[h].enable_retry
            /\ Delta(h, "provider_failures") = n - 1
            /\ Delta(h, "provider_timeouts") = TimeoutsBefore(h, n)
            /\ Delta(h, "provider_connection_errors") = ConnectionErrorsBefore(h, n)
            /\ Delta(h, "provider_other_errors") = 0

\* C3 witness: an auth rejection that came on the second attempt.
C3_Witness ==
    \E h \in Handlers :
        /\ pc[h] = "done" /\ loc[h].status = "auth_failed" /\ Len(sent[h]) = 2
        /\ response[h].status = 401 /\ Delta(h, "provider_failures") = 1

\* C4: with retry enabled, a timeout on attempt 1 followed by a success on
\* attempt 2 gives ok and 200; provider_timeouts, retries_used and
\* provider_failures each grew by 1 and no other failure counter changed.
C4_TimeoutThenSuccess ==
    \A h \in Handlers :
        (pc[h] = "done" /\ IsProtectedAction(h) /\ loc[h].enable_retry
            /\ Len(sent[h]) = 2 /\ IsTimeoutReply(sent[h][1].reply)
            /\ IsSuccessReply(sent[h][2].reply)) =>
            /\ loc[h].status = "ok"
            /\ response[h].status = 200
            /\ Delta(h, "provider_timeouts") = 1
            /\ Delta(h, "retries_used") = 1
            /\ Delta(h, "provider_failures") = 1
            /\ Delta(h, "provider_connection_errors") = 0
            /\ Delta(h, "provider_other_errors") = 0

\* C4 witness: a completed request whose first call timed out and whose
\* second was answered 200.
C4_Witness ==
    \E h \in Handlers :
        /\ pc[h] = "done" /\ loc[h].enable_retry /\ Len(sent[h]) = 2
        /\ IsTimeoutReply(sent[h][1].reply)
        /\ IsSuccessReply(sent[h][2].reply)
        /\ response[h].status = 200

\* C5: when all maxAttempts attempts (2 with retry, 1 without) fail
\* transiently, the call returns provider_failed and the answer is 503; the
\* timeout and connection counters together, and provider_failures, grew by
\* maxAttempts; the details are the description of the last attempt's error.
C5_Exhausted ==
    \A h \in Handlers :
        LET n == Len(sent[h])
            maxAttempts == IF loc[h].enable_retry THEN 2 ELSE 1
        IN  (pc[h] = "done" /\ IsProtectedAction(h) /\ n = maxAttempts
                /\ \A i \in 1..n : IsTransientReply(sent[h][i].reply)) =>
                /\ loc[h].status = "provider_failed"
                /\ response[h].status = 503
                /\ Delta(h, "provider_timeouts") + Delta(h, "provider_connection_errors")
                       = maxAttempts
                /\ Delta(h, "provider_failures") = maxAttempts
                /\ Delta(h, "provider_other_errors") = 0
                /\ response[h].json.details = sent[h][n].reply.e.text

\* C5 witness: two transient failures of different kinds, answered 503.
C5_Witness ==
    \E h \in Handlers :
        /\ pc[h] = "done" /\ loc[h].enable_retry /\ Len(sent[h]) = 2
        /\ IsTimeoutReply(sent[h][1].reply) /\ IsConnectionReply(sent[h][2].reply)
        /\ sent[h][1].reply.e.text # sent[h][2].reply.e.text
        /\ response[h].status = 503

\* C6: an attempt that ends in an "other" transport error is the last
\* outbound call: the call returns provider_failed, no backoff is taken and
\* retries_used is not incremented after it, and that attempt added exactly 1
\* to provider_failures and to provider_other_errors (the counters have
\* grown by that and by what the transient failures before it added).
C6_OtherErrorEndsLoop ==
    \A h \in Handlers :
        \A i \in 1..Len(sent[h]) :
            (IsOtherReply(sent[h][i].reply) /\ pc[h] \notin {"L111", "L112"}) =>
                /\ Returned(h)
                /\ i = Len(sent[h])
                /\ loc[h].status = "provider_failed"
                /\ loc[h].sleeps = i - 1
                /\ Delta(h, "retries_used") = i - 1
                /\ Delta(h, "provider_other_errors") = 1
                /\ Delta(h, "provider_failures") = (i - 1) + 1
                /\ Delta(h, "provider_timeouts") = TimeoutsBefore(h, i)
                /\ Delta(h, "provider_connection_errors") = ConnectionErrorsBefore(h, i)

\* C6 witness: retry enabled, the first attempt answered with an error
\* status other than 401, request completed after that single call.
C6_Witness ==
    \E h \in Handlers :
        /\ pc[h] = "done" /\ loc[h].enable_retry /\ loc[h].attempts = 2
        /\ Len(sent[h]) = 1 /\ IsOtherReply(sent[h][1].reply)
        /\ loc[h].status = "provider_failed"

\* C7: a non-empty X-Request-ID of a POST /protected-action is the
\* X-Request-ID of every outbound call, the request_id of the 200 body and
\* the request_id of every log record written for the request.
C7_HeaderPropagated ==
    \A h \in Handlers :
        (IsProtectedAction(h) /\ req[h].hdr.has /\ req[h].hdr.v # ClientId("")) =>
            /\ \A i \in 1..Len(sent[h]) : sent[h][i].headers = req[h].hdr.v
            /\ \A j \in 1..Len(logs[h]) : logs[h][j].request_id = req[h].hdr.v
            /\ response[h].status = 200 => response[h].json.request_id = req[h].hdr.v

\* C7 witness: a request with X-Request-ID abc123 answered 200 after a
\* failed first attempt and a retry, with its failure and completion records.
C7_Witness ==
    \E h \in Handlers :
        /\ pc[h] = "done" /\ IsProtectedAction(h)
        /\ req[h].hdr = Header(ClientId("abc123"))
        /\ Len(sent[h]) = 2 /\ response[h].status = 200
        /\ \E j \in 1..Len(logs[h]) : logs[h][j].level = "ERROR"
        /\ logs[h][Len(logs[h])].service = "service-b"
        /\ logs[h][Len(logs[h])].level = "INFO"

\* C8: without an X-Request-ID header one generated id is the X-Request-ID of
\* every outbound call, the request_id of the 200 body and the request_id of
\* every log record of the request, the completion record included.
C8_GeneratedIdEverywhere ==
    \A h \in Handlers :
        (pc[h] = "done" /\ IsProtectedAction(h) /\ ~req[h].hdr.has
            /\ Len(sent[h]) > 0) =>
            LET id == loc[h].request_id IN
            /\ id.src = "uuid4"
            /\ \A i \in 1..Len(sent[h]) : sent[h][i].headers = id
            /\ response[h].status = 200 => response[h].json.request_id = id
            /\ \A j \in 1..Len(logs[h]) : logs[h][j].request_id = id

\* C9: POST /token answers 200 with token "token-" + username and that user
\* for username "divya" with password "pass123", and 401 for every other
\* username / password in the body.
C9_ExactPairOnly ==
    result # NoResponse =>
        LET u == BodyGet(arg.body, "username")
            p == BodyGet(arg.body, "password")
        IN  IF u = Str(c_divya) /\ p = Str(c_pass123)
            THEN /\ result.status = 200
                 /\ result.json = [token |-> c_tokenprefix \o c_divya, user |-> c_divya]
            ELSE result.status = 401

\* C10: every POST /protected-action ends in one of three responses, fixed by
\* the forwarder's outcome: ok 200 with consumer, action, user, token and
\* request_id; auth_failed 401 with the generic error; provider_failed 503
\* with error and details.
C10_ThreeResponses ==
    \A h \in Handlers :
        (pc[h] = "done" /\ IsProtectedAction(h)) =>
            LET l == loc[h]
                r == response[h]
            IN  \/ /\ l.status = "ok"
                   /\ r = [status |-> 200,
                           json |-> [consumer |-> "ok", action |-> l.action,
                                     user |-> l.provider_json.user,
                                     token |-> l.provider_json.token,
                                     request_id |-> l.request_id]]
                \/ /\ l.status = "auth_failed"
                   /\ r = [status |-> 401, json |-> [error |-> "invalid credentials"]]
                \/ /\ l.status = "provider_failed"
                   /\ r = [status |-> 503,
                           json |-> [error |-> "provider unavailable",
                                     details |-> l.err]]

\* C11: call_provider_token never raises: whatever the Provider did on each
\* attempt, once the call is over it has returned one of ok, auth_failed and
\* provider_failed, the one that tells how the last attempt ended (ok for a
\* well-formed success, auth_failed for a 401, provider_failed for a timeout,
\* a connection failure, another error status or a malformed body); every
\* attempt has its outcome recorded and the client is not answered 500.
C11_NeverRaises ==
    \A h \in Handlers :
        (IsProtectedAction(h) /\ Len(sent[h]) > 0
            /\ pc[h] \in {"L162", "L38", "done"}) =>
            LET n == Len(sent[h])
                last == sent[h][n].reply
            IN  /\ loc[h].status \in {"ok", "auth_failed", "provider_failed"}
                /\ loc[h].status = "ok" <=> IsSuccessReply(last)
                /\ loc[h].status = "auth_failed" <=>
                       (last.kind = "response" /\ last.status = 401)
                /\ loc[h].status = "provider_failed" <=>
                       (IsTransientReply(last) \/ IsOtherReply(last))
                /\ \A i \in 1..n :
                       sent[h][i].outcome \in
                           {"ok", "auth_failed", "timeout", "connection_error",
                            "request_exception"}
                /\ pc[h] = "done" => response[h].status \in {200, 401, 503}

\* C11 witness: a 200 reply whose body is no JSON, on the first attempt of a
\* call with retry enabled; the call returned provider_failed.
C11_Witness ==
    \E h \in Handlers :
        /\ pc[h] = "done" /\ IsProtectedAction(h) /\ loc[h].enable_retry
        /\ Len(sent[h]) = 1
        /\ sent[h][1].reply = [kind |-> "response", status |-> 200, json |-> MalformedBody]
        /\ loc[h].status = "provider_failed" /\ response[h].status = 503
\* C12: no POST /protected-action fails or is rejected because of what its
\* body holds: whatever the body, the fields are coerced (action "ping" when
\* absent, delay 0 when absent or invalid, retry true when absent), the
\* request is forwarded to the Provider and the answer is 200, 401 or 503.
C12_InputNeverRejected ==
    \A h \in Handlers :
        (pc[h] = "done" /\ IsProtectedAction(h)) =>
            LET body == req[h].body IN
            /\ response[h].status \in {200, 401, 503}
            /\ Len(sent[h]) >= 1
            /\ BodyGet(body, "action") = Null => loc[h].action = Str(c_ping)
            /\ BodyGet(body, "delay_ms") \in {Null, Str(c_abc)} => loc[h].delay_ms = 0
            /\ BodyGet(body, "retry") = Null => loc[h].enable_retry
\* C13: POST /token answers 200 or 401 whatever its body holds, and sleeps
\* for no time when the delay it is given (delay_ms of the body, else of the
\* query) is absent or is no number.
C13_TokenNeverRaises ==
    result # NoResponse =>
        LET delay == PyOr(BodyGet(arg.body, "delay_ms"), arg.args) IN
        /\ result.status \in {200, 401}
        /\ delay \in {Null, Str(c_abc)} => result.slept = 0
\* C14: no step of any execution, handlers running at the same time
\* included, makes a counter of either service smaller than it was.
C14_Monotonic ==
    [][/\ \A c \in DOMAIN METRICS_a : METRICS_a'[c] >= METRICS_a[c]
       /\ \A c \in DOMAIN METRICS_b : METRICS_b'[c] >= METRICS_b[c]]_vars
\* The bounds of one call of call_provider_token by handler h.
C15_Bounds ==
    \A h \in Handlers :
        (IsProtectedAction(h) /\ loc[h].attempts > 0) =>
            LET maxAttempts == IF loc[h].enable_retry THEN 2 ELSE 1
                retry == BodyGet(req[h].body, "retry")
                n == Len(sent[h])
            IN  /\ retry = Null => maxAttempts = 2
                /\ retry = Bool(FALSE) => maxAttempts = 1
                /\ loc[h].attempts = maxAttempts
                /\ n <= maxAttempts
                /\ \A i \in 1..n : sent[h][i].attempt = i
                /\ loc[h].sleeps <= maxAttempts - 1
                /\ Returned(h) => (n >= 1 /\ loc[h].sleeps <= n - 1)

\* A backoff sleep is taken only while another attempt remains.
C15_BackoffBeforeAttempt ==
    \A h \in Handlers :
        loc'[h].sleeps > loc[h].sleeps => loc[h].attempt + 1 < loc[h].attempts

\* C15: every call of call_provider_token ends with an outcome, having made
\* at least 1 and at most maxAttempts outbound calls (2 with retry enabled,
\* the default when the retry field is absent; 1 with retry disabled) and at
\* most maxAttempts - 1 backoff sleeps, none of them after the last attempt.
C15_BoundedCall ==
    /\ []C15_Bounds
    /\ [][C15_BackoffBeforeAttempt]_vars
    /\ \A h \in Handlers : (pc[h] = "L76") ~> Returned(h)

\* C15 witness: a call with retry enabled that made both its attempts, with
\* one backoff between them, and returned.
C15_Witness ==
    \E h \in Handlers :
        /\ Returned(h) /\ loc[h].attempts = 2 /\ Len(sent[h]) = 2
        /\ loc[h].sleeps = 1 /\ BodyGet(req[h].body, "retry") = Null
\* C16: once the client has cancelled its POST /protected-action, the
\* attempt in flight is given up and no outbound attempt is started: the
\* handler makes no call to the Provider and an attempt under way gets no
\* outcome after the cancellation.
C16_NoAttemptAfterCancel ==
    [][\A h \in Handlers :
          loc[h].cancelled =>
              /\ Len(sent'[h]) <= Len(sent[h])
              /\ \A i \in 1..Len(sent[h]) :
                     (sent[h][i].outcome = "pending" /\ Len(sent'[h]) >= i)
                         => sent'[h][i].outcome = "pending"]_vars
\* C17: GET /health of either service is answered 200 with status "ok",
\* whatever the counters hold and whatever became of the calls to the
\* Provider before it; handling it makes no outbound call.
C17_HealthAlwaysOk ==
    \A h \in Handlers :
        (req[h].svc \in {"a", "b"} /\ req[h].endpoint = "/health") =>
            /\ sent[h] = <<>>
            /\ pc[h] = "done" =>
                   response[h] = [status |-> 200, json |-> [status |-> "ok"]]

\* C17 witness: a health check of service-b answered after a request whose
\* calls to the Provider failed.
C17_Witness ==
    \E h \in Handlers :
        /\ pc[h] = "done" /\ req[h].svc = "b" /\ req[h].endpoint = "/health"
        /\ METRICS_b.provider_failures > 0 /\ METRICS_b.requests_total > 0
        /\ response[h].status = 200
\* The attempts of handler h, among those made so far, that failed with a
\* timeout or a connection failure while another attempt remained.
RetryEligible(h) ==
    { i \in 1..Len(sent[h]) :
        IsTransientReply(sent[h][i].reply) /\ i < loc[h].attempts }

\* C18: in a call of call_provider_token, outside the handling of a failed
\* attempt, retries_used has grown by the number of backoff sleeps taken,
\* which is the number of attempts that failed with a timeout or a connection
\* failure while another attempt remained: none for a success, a 401, an
\* "other" error, the last attempt or a call with retry disabled.  When the
\* call has returned the growth is the number of outbound attempts minus 1.
C18_RetriesUsed ==
    \A h \in Handlers :
        (IsProtectedAction(h) /\ loc[h].attempts > 0
            /\ pc[h] \notin {"L85", "L86", "L98", "L99", "L125"}) =>
            /\ Delta(h, "retries_used") = loc[h].sleeps
            /\ loc[h].sleeps = Cardinality(RetryEligible(h))
            /\ ~loc[h].enable_retry => Delta(h, "retries_used") = 0
            /\ Returned(h) => Delta(h, "retries_used") = Len(sent[h]) - 1

\* C18 witness: a call with retry enabled whose two attempts both failed to
\* connect; retries_used grew by 1, for the first of them.
C18_Witness ==
    \E h \in Handlers :
        /\ Returned(h) /\ loc[h].enable_retry /\ Len(sent[h]) = 2
        /\ IsConnectionReply(sent[h][1].reply) /\ IsConnectionReply(sent[h][2].reply)
        /\ Delta(h, "retries_used") = 1 /\ loc[h].sleeps = 1
\* C19: with requests handled one at a time, in every state in which no
\* handler is between the two increments of an except clause,
\* provider_failures is the sum of provider_timeouts,
\* provider_connection_errors and provider_other_errors.
C19_FailuresAreClassed ==
    (\A h \in Handlers : pc[h] \notin {"L86", "L99", "L112"}) =>
        METRICS_b.provider_failures =
            METRICS_b.provider_timeouts + METRICS_b.provider_connection_errors
                + METRICS_b.provider_other_errors

\* C19 witness: a failure of each class has been counted (a timeout, a
\* refused connection and an error status) and no attempt is being handled.
C19_Witness ==
    /\ \A h \in Handlers : pc[h] \notin {"L86", "L99", "L112"}
    /\ METRICS_b.provider_timeouts > 0
    /\ METRICS_b.provider_connection_errors > 0
    /\ METRICS_b.provider_other_errors > 0
    /\ METRICS_b.provider_failures = 3

\* C20: a POST /protected-action whose first outbound attempt succeeded
\* has, when it completes, added 1 to requests_total and to
\* protected_action_requests of service-b and left its other five counters
\* as they were; a GET /health or GET /metrics has added 1 to requests_total
\* of the service asked and changed no other counter of either service.
C20_Frame ==
    \A h \in Handlers :
        pc[h] = "done" =>
            /\ (IsProtectedAction(h) /\ Len(sent[h]) >= 1
                    /\ IsSuccessReply(sent[h][1].reply)) =>
                   METRICS_b = [base[h].b EXCEPT !.requests_total = @ + 1,
                                                !.protected_action_requests = @ + 1]
            /\ (req[h].svc = "b" /\ req[h].endpoint \in {"/health", "/metrics"}) =>
                   /\ METRICS_b = [base[h].b EXCEPT !.requests_total = @ + 1]
                   /\ METRICS_a = base[h].a
            /\ (req[h].svc = "a" /\ req[h].endpoint \in {"/health", "/metrics"}) =>
                   /\ METRICS_a = [base[h].a EXCEPT !.requests_total = @ + 1]
                   /\ METRICS_b = base[h].b

\* C20 witness: a protected action answered 200 on its first attempt,
\* completed after an earlier request had already moved the counters.
C20_Witness ==
    \E h \in Handlers :
        /\ pc[h] = "done" /\ IsProtectedAction(h) /\ Len(sent[h]) = 1
        /\ IsSuccessReply(sent[h][1].reply) /\ response[h].status = 200
        /\ base[h].b.requests_total > 0
        /\ METRICS_b.requests_total = base[h].b.requests_total + 1

====
